---- MODULE Spec2Model ----
(***************************************************************************)
(* Model of the capture / recognition / source-arbitration loop of         *)
(* src/hello.py: MusicIdentifier.run and                                   *)
(* MusicIdentifier.get_sonos_track_info.                                   *)
(*                                                                         *)
(* Python's None is the empty sequence <<>> and a present value v is the   *)
(* one-element sequence <<v>>.  Durations are counted in samples: the      *)
(* float buffer_duration of the source is buffer_duration / RATE here, so  *)
(* "buffer_duration >= target_duration" reads                              *)
(* buffer_duration >= target_duration * RATE.  Clock values (time.time())  *)
(* are whole seconds; the time a step takes is spent in its blocking or    *)
(* awaited call, so a time stamp taken after the call is the clock value   *)
(* at the end of the step.                                                 *)
(***************************************************************************)
EXTENDS Integers, Sequences, FiniteSets, TLC

VARIABLES
    now,                 \* time.time()
    pc,                  \* position of the run() coroutine
    sonos_speaker,       \* TRUE when init_sonos found a speaker
    sonos_is_playing,    \* self.sonos_is_playing
    last_sonos_check,    \* self.last_sonos_check
    last_identified,     \* self.last_identified
    last_song_time,      \* self.last_song_time
    buffer,              \* run(): buffer
    buffer_duration,     \* run(): buffer_duration (in samples)
    audio_stream_active, \* run(): audio_stream_active
    sonos_track,         \* run(): sonos_track
    audio_data,          \* run(): the clip handed to shazam.recognize
    ev,                  \* history: what the last step of the loop did
    poll,                \* history: the query the last tick issued
    confirmed,           \* history: last transport state a query reported
    cand,                \* history: the last candidate offered to the store
    notitle,             \* history: the last query found "playing", no title
    in_flight,           \* history: recognition calls not yet returned
    next_chunk,          \* the chunk the capture device delivers next
    stream,              \* state of self.stream (PortAudio)
    config_update_task,  \* self.config_update_task
    script,              \* what the recognition service answers to a call
    attempt,             \* HTTP attempts the call has made
    status,              \* status of the response at hand (0: none)
    reply,               \* what shazam.recognize gives run()
    devices,             \* what PyAudio reports for each device index
    device_index,        \* the device_index argument of __init__
    default_index,       \* the host API's defaultInputDevice
    input_device_index,  \* self.input_device_index
    boot,                \* how far start-up has come
    clip,                \* np.concatenate(buffer): int16 samples
    normalized,          \* the int16 array written to the WAV data
    schedule_showing,    \* self.schedule_showing
    schedule_show_start, \* self.schedule_show_start
    last_schedule_display, \* self.last_schedule_display
    drawn                \* history: draw_window ran since clock and record
                         \* last changed

vars == <<now, pc, sonos_speaker, sonos_is_playing, last_sonos_check,
          last_identified, last_song_time, buffer, buffer_duration,
          audio_stream_active, sonos_track, audio_data, ev, poll,
          confirmed, cand, notitle, in_flight, next_chunk, stream,
          config_update_task, script, attempt, status, reply, devices,
          device_index, default_index, input_device_index, boot, clip,
          normalized, schedule_showing, schedule_show_start,
          last_schedule_display, drawn>>

----------------------------------------------------------------------------
(* Program constants *)

CHUNK == 4096
RATE == 16000
target_duration == 3
sonos_check_interval == 1
sonos_check_interval_paused == 5

\* ExponentialRetry(attempts=12, ...)
attempts == 12
\* the factor of the normalisation, the largest int16
FullScale == 32767
\* config display.schedule_duration and display.schedule_interval, by
\* default, and the cap of the interval while no record is stored
schedule_duration == 10
schedule_interval == 60
schedule_interval_idle == 10

(* Bounds of the model *)

\* the service fails at most this many times in a row
MaxFails == 13
\* PyAudio reports at most this many devices
MaxDevices == 3
\* a clip of the normalisation has at most this many samples
MaxClipLen == 2
\* the clock of the schedule display stops advancing here
SchedMaxTime == 140

\* the clock value at start-up
StartTime == 5
\* the clock stops advancing here
MaxTime == 11

None == <<>>
Some(v) == <<v>>

\* (title, artist) pairs the services report: they differ in the title
\* only, in the artist only, or in both
Pairs == {<<"A", "B">>, <<"X", "B">>, <<"A", "Y">>}
ArtUrls == {"u1", "u2"}
\* current_song of the recognition path carries no 'images' key
NoArt == "-"

Song(t, a, u) == [title |-> t, artist |-> a, art |-> u]

\* the tracks soco's get_current_track_info gives
TrackInfos == {Song(p[1], p[2], u) : p \in Pairs, u \in ArtUrls}
\* one answer of the speaker: the transport state (or "error" when the
\* query raises), whether the track query raises, and the track it gives
\* (None: no title available)
PollInputs ==
    {[transport |-> "error", fail |-> FALSE, track |-> None]}
      \cup {[transport |-> "stopped", fail |-> FALSE, track |-> None]}
      \cup {[transport |-> "playing", fail |-> TRUE, track |-> None]}
      \cup {[transport |-> "playing", fail |-> FALSE, track |-> t] :
               t \in {None} \cup {Some(s) : s \in TrackInfos}}

\* chunks are told apart by their place in the device's stream, counted
\* modulo 2
Chunks == {0, 1}
NextChunk(c) == 1 - c

\* what shazam.recognize gives: a result with a track, a result without
\* one, or an exception
RecognizeOutcomes ==
    {[kind |-> "none", track |-> <<>>], [kind |-> "error", track |-> <<>>]}
      \cup {[kind |-> "track", track |-> p] : p \in Pairs}

\* ExponentialRetry(statuses={500, 502, 503, 504, 429})
RetryStatuses_no503 == {500, 502, 504, 429}
RetryStatuses == {500, 502, 503, 504, 429}

\* the service answers `failing` to the first `fails` attempts of a call
\* and `final` to every later one
Scripts ==
    [fails : 0..MaxFails, failing : {503, 429, 500}, final : {200, 404}]

----------------------------------------------------------------------------
(* get_sonos_track_info *)

\* the interval the guard of get_sonos_track_info compares against
CheckInterval_swapped(playing) ==
    IF playing THEN sonos_check_interval_paused ELSE sonos_check_interval
CheckInterval(playing) ==
    IF playing THEN sonos_check_interval ELSE sonos_check_interval_paused

\* TRUE when the call returns early, without querying the speaker
TooSoon(current_time, last_check, playing) ==
    current_time - last_check < CheckInterval(playing)

\* the except branch
OnQueryError_stale(ident) ==
    [ret |-> ident, playing |-> FALSE, ident |-> ident]
OnQueryError_clear(ident) ==
    [ret |-> None, playing |-> FALSE, ident |-> None]
OnQueryError(ident) ==
    [ret |-> None, playing |-> FALSE, ident |-> ident]

\* the try body, given what the speaker answers
OnQuery(in, was_playing, ident) ==
    LET is_playing == (in.transport = "playing") IN
    IF was_playing # is_playing /\ ~is_playing
      THEN [ret |-> None, playing |-> FALSE, ident |-> None]
    ELSE IF is_playing
      THEN IF in.fail THEN OnQueryError(ident)
           ELSE [ret |-> in.track, playing |-> TRUE, ident |-> ident]
    ELSE [ret |-> None, playing |-> FALSE, ident |-> ident]

\* self.last_sonos_check = current_time
CheckTime_elapsed(current_time, last_check) == current_time - last_check
CheckTime(current_time, last_check) == current_time

\* the whole call: the returned track and the fields it leaves behind
GetSonosTrackInfo(in) ==
    IF ~sonos_speaker
      THEN [ret |-> None, playing |-> sonos_is_playing,
            ident |-> last_identified, check |-> last_sonos_check,
            poll |-> "none"]
    ELSE IF TooSoon(now, last_sonos_check, sonos_is_playing)
      THEN [ret |-> IF sonos_is_playing THEN last_identified ELSE None,
            playing |-> sonos_is_playing, ident |-> last_identified,
            check |-> last_sonos_check, poll |-> "none"]
    ELSE LET r == IF in.transport = "error"
                    THEN OnQueryError(last_identified)
                    ELSE OnQuery(in, sonos_is_playing, last_identified)
         IN [ret |-> r.ret, playing |-> r.playing, ident |-> r.ident,
             check |-> CheckTime(now, last_sonos_check),
             poll |-> IF in.transport = "error" \/ in.fail
                        THEN "err" ELSE "ok"]

\* TRUE when this call queries the speaker
QueryDue ==
    sonos_speaker /\ ~TooSoon(now, last_sonos_check, sonos_is_playing)

\* the answers the speaker can give to this call: none is read when no
\* query is made
NoAnswer == [transport |-> "error", fail |-> FALSE, track |-> None]
AnswersNow == IF QueryDue THEN PollInputs ELSE {NoAnswer}

----------------------------------------------------------------------------
(* the store *)

\* the "is this a new song" test of run()
IsNewSong_never(song, stored) == FALSE
IsNewSong_titleOnly(song, stored) ==
    \/ stored = None
    \/ song.title # stored[1].title
IsNewSong_art(song, stored) ==
    \/ stored = None
    \/ song.title # stored[1].title
    \/ song.artist # stored[1].artist
    \/ song.art # stored[1].art
IsNewSong(song, stored) ==
    \/ stored = None
    \/ song.title # stored[1].title
    \/ song.artist # stored[1].artist

\* self.last_song_time = time.time()
SongTime_unset(current_time) == None
SongTime(current_time) == Some(current_time)

\* buffer_duration += CHUNK / RATE, a chunk of CHUNK samples each time
Accumulate_bytes(duration) == duration + 2 * CHUNK
Accumulate(duration) == duration + CHUNK

\* buffer_duration >= target_duration
IsFull_late(duration) == duration >= target_duration * RATE + CHUNK
IsFull(duration) == duration >= target_duration * RATE

\* buffer.append(audio_chunk)
Push(buf, chunk) == Append(buf, chunk)

\* np.concatenate(buffer): the clip holds the buffered chunks in order
Concatenate_tail(buf) == Tail(buf)
Concatenate(buf) == buf

\* the buffer after a read that gave no data or raised IOError
BufferAfterFailedRead_clear(buf) == <<>>
BufferAfterFailedRead(buf) == buf

\* where run() is after the off-hours branch: 'continue', the next tick
AfterOffHours_fallthrough == "read"
AfterOffHours == "loop"

\* where run() is once the clip is submitted: awaiting shazam.recognize
AfterSubmit_detached == "loop"
AfterSubmit == "recognize"

\* where run() is after the except branch of the recognition
RecognitionExcept_raise == "crashed"
RecognitionExcept == "loop"

\* handle_events on QUIT: config_update_task.cancel() when there is a task
CancelTask_skip(task) == task
CancelTask(task) == IF task = "running" THEN "cancelled" ELSE task

\* buffer.clear() after stream.stop_stream() in the Sonos branch
BufferAfterStop_kept(buf) == buf
BufferAfterStop(buf) == <<>>

\* audio_stream_active after stream.stop_stream() in the Sonos branch
StreamAfterStop_kept(active) == active
StreamAfterStop(active) == FALSE

----------------------------------------------------------------------------
MainInit ==
    /\ now = StartTime
    /\ pc = "loop"
    /\ sonos_speaker \in BOOLEAN
    /\ sonos_is_playing = FALSE
    /\ last_sonos_check = 0
    /\ last_identified = None
    /\ last_song_time = None
    /\ buffer = <<>>
    /\ buffer_duration = 0
    /\ audio_stream_active = FALSE
    /\ sonos_track = None
    /\ audio_data = None
    /\ ev = "init"
    /\ poll = "none"
    /\ confirmed = FALSE
    /\ cand = None
    /\ notitle = FALSE
    /\ in_flight = 0
    /\ next_chunk = 0
    /\ stream = "stopped"
    /\ config_update_task \in {"none", "running"}

\* no recognition call is followed attempt by attempt
RetryIdle ==
    /\ script = None
    /\ attempt = 0
    /\ status = 0
    /\ reply = None

\* start-up is over and not followed
StartIdle ==
    /\ devices = <<>>
    /\ device_index = None
    /\ default_index = None
    /\ input_device_index = None
    /\ boot = "done"

\* no clip is followed sample by sample
NormIdle ==
    /\ clip = <<>>
    /\ normalized = None

\* the schedule fields as __init__ leaves them
SchedIdle ==
    /\ schedule_showing = FALSE
    /\ schedule_show_start = 0
    /\ last_schedule_display = 0
    /\ drawn = FALSE

Init ==
    /\ MainInit
    /\ RetryIdle
    /\ StartIdle
    /\ NormIdle
    /\ SchedIdle

Elapse(ds) == \E d \in ds : now + d <= MaxTime /\ now' = now + d

sonosVars == <<sonos_is_playing, last_sonos_check>>
storeVars == <<last_identified, last_song_time>>
bufVars == <<buffer, buffer_duration>>
histVars == <<poll, confirmed, cand, notitle>>
retryVars == <<script, attempt, status, reply>>
startVars ==
    <<devices, device_index, default_index, input_device_index, boot>>
normVars == <<clip, normalized>>
schedVars ==
    <<schedule_showing, schedule_show_start, last_schedule_display, drawn>>
\* what the steps of the loop do not follow
sideVars == <<retryVars, startVars, normVars, schedVars>>

\* handle_events: a QUIT event ends the process through sys.exit(0)
\* (p.terminate() closes the stream, the task is cancelled, and the finally
\* clause of run() stops and closes the stream again)
Quit ==
    /\ pc = "loop"
    /\ pc' = "exited"
    /\ ev' = "quit"
    /\ stream' = "closed"
    /\ config_update_task' = CancelTask(config_update_task)
    /\ UNCHANGED <<now, sonos_speaker, sonosVars, storeVars, bufVars,
                   audio_stream_active, sonos_track, audio_data, histVars,
                   in_flight, next_chunk>>
    /\ UNCHANGED sideVars

\* a tick outside operating hours: draw, sleep(1), continue
TickOffHours ==
    /\ pc = "loop"
    /\ Elapse({1})
    /\ ev' = "off"
    /\ pc' = AfterOffHours
    /\ UNCHANGED <<sonos_speaker, sonosVars, storeVars, bufVars,
                   audio_stream_active, sonos_track, audio_data, histVars,
                   in_flight, next_chunk, stream, config_update_task>>
    /\ UNCHANGED sideVars

\* history of the query a call to get_sonos_track_info made
PollHistory(in, g) ==
    /\ poll' = g.poll
    /\ confirmed' = IF g.poll = "none" \/ in.transport = "error"
                      THEN confirmed ELSE (in.transport = "playing")
    /\ notitle' = IF g.poll = "none" THEN notitle
                   ELSE /\ in.transport = "playing"
                        /\ ~in.fail
                        /\ in.track = None

\* a tick in which get_sonos_track_info returns a track
TickSonos ==
    /\ pc = "loop"
    /\ \E in \in AnswersNow :
         LET g == GetSonosTrackInfo(in) IN
         /\ g.ret # None
         /\ sonos_is_playing' = g.playing
         /\ last_sonos_check' = g.check
         /\ sonos_track' = g.ret
         /\ PollHistory(in, g)
         /\ \E stop_ok \in BOOLEAN :
              IF audio_stream_active /\ ~stop_ok
                THEN \* stream.stop_stream() raises: the loop's outer except
                     /\ pc' = "crashed"
                     /\ ev' = "stop_fail"
                     \* (the finally clause calls stop_stream() once more
                     \* and, if that returns, close())
                     /\ stream' \in {"running", "closed"}
                     /\ last_identified' = g.ident
                     /\ UNCHANGED <<now, last_song_time, bufVars,
                                    audio_stream_active, cand>>
                ELSE /\ Elapse({0, 1})
                     /\ stream' = "stopped"
                     /\ audio_stream_active' =
                          (IF audio_stream_active
                             THEN StreamAfterStop(audio_stream_active)
                             ELSE audio_stream_active)
                     /\ IF audio_stream_active
                          THEN /\ buffer' = BufferAfterStop(buffer)
                               /\ buffer_duration' = 0
                          ELSE UNCHANGED bufVars
                     /\ cand' = g.ret
                     /\ IF IsNewSong(g.ret[1], g.ident)
                          THEN /\ last_identified' = g.ret
                               /\ last_song_time' = SongTime(now')
                               /\ ev' = "sonos_new"
                          ELSE /\ last_identified' = g.ident
                               /\ UNCHANGED last_song_time
                               /\ ev' = "sonos_same"
                     /\ pc' = "loop"
    /\ UNCHANGED <<sonos_speaker, audio_data, in_flight, next_chunk,
                   config_update_task>>
    /\ UNCHANGED sideVars

\* a tick in which get_sonos_track_info returns None: start the stream if
\* needed and go on to read a chunk
TickCapture ==
    /\ pc = "loop"
    /\ \E in \in AnswersNow :
         LET g == GetSonosTrackInfo(in) IN
         /\ g.ret = None
         /\ sonos_is_playing' = g.playing
         /\ last_sonos_check' = g.check
         /\ last_identified' = g.ident
         /\ sonos_track' = None
         /\ PollHistory(in, g)
    /\ \E start_ok \in BOOLEAN :
         IF ~audio_stream_active /\ ~start_ok
           THEN /\ pc' = "loop"
                /\ ev' = "start_fail"
                /\ Elapse({0, 1})
                /\ UNCHANGED <<audio_stream_active, stream>>
           ELSE /\ pc' = "read"
                /\ ev' = "capture"
                /\ audio_stream_active' = TRUE
                /\ stream' = "running"
                /\ UNCHANGED now
    /\ UNCHANGED <<sonos_speaker, last_song_time, bufVars, audio_data, cand,
                   in_flight, next_chunk, config_update_task>>
    /\ UNCHANGED sideVars

\* stream.read returns; a full buffer is drained into a clip
ReadChunk ==
    /\ pc = "read"
    /\ Elapse({0, 1})
    /\ \E outcome \in {"ioerror", "empty", "data"} :
         LET data == next_chunk IN
         IF outcome # "data"
           THEN /\ pc' = "loop"
                /\ ev' = "read_fail"
                /\ buffer' = BufferAfterFailedRead(buffer)
                /\ UNCHANGED <<buffer_duration, audio_data, in_flight,
                               next_chunk>>
         ELSE IF IsFull(Accumulate(buffer_duration))
           THEN /\ audio_data' = Some(Concatenate(Push(buffer, data)))
                /\ buffer' = <<>>
                /\ buffer_duration' = 0
                /\ next_chunk' = NextChunk(next_chunk)
                /\ in_flight' = in_flight + 1
                /\ pc' = AfterSubmit
                /\ ev' = "drain"
         ELSE /\ buffer' = Push(buffer, data)
              /\ buffer_duration' = Accumulate(buffer_duration)
              /\ next_chunk' = NextChunk(next_chunk)
              /\ pc' = "loop"
              /\ ev' = "push"
              /\ UNCHANGED <<audio_data, in_flight>>
    /\ UNCHANGED <<sonos_speaker, sonosVars, storeVars, audio_stream_active,
                   sonos_track, histVars, stream, config_update_task>>
    /\ UNCHANGED sideVars

\* shazam.recognize returns (a track, no track) or raises
RecognizeDone ==
    /\ pc = "recognize"
    /\ Elapse({0, 1})
    /\ \E outcome \in RecognizeOutcomes :
         LET result == outcome.track IN
         IF outcome.kind # "track"
           THEN /\ ev' = IF outcome.kind = "none" THEN "rec_none"
                                                     ELSE "rec_error"
                /\ pc' = IF outcome.kind = "none" THEN "loop"
                                                  ELSE RecognitionExcept
                /\ UNCHANGED <<storeVars, cand>>
           ELSE LET current_song == Song(result[1], result[2], NoArt) IN
                /\ cand' = Some(current_song)
                /\ pc' = "loop"
                /\ IF IsNewSong(current_song, last_identified)
                     THEN /\ last_identified' = Some(current_song)
                          /\ last_song_time' = SongTime(now')
                          /\ ev' = "rec_new"
                     ELSE /\ UNCHANGED storeVars
                          /\ ev' = "rec_same"
    /\ audio_data' = None
    /\ in_flight' = in_flight - 1
    /\ UNCHANGED <<sonos_speaker, sonosVars, bufVars, audio_stream_active,
                   sonos_track, poll, confirmed, notitle, next_chunk, stream,
                   config_update_task>>
    /\ UNCHANGED sideVars

Next ==
    \/ Quit
    \/ TickOffHours
    \/ TickSonos
    \/ TickCapture
    \/ ReadChunk
    \/ RecognizeDone

Spec == Init /\ [][Next]_vars

\* run() is one coroutine that is always scheduled again: a call it makes
\* (stream.read, shazam.recognize, asyncio.sleep) returns and the loop goes
\* on to its next step
FairSpec == Spec /\ WF_vars(Next)

----------------------------------------------------------------------------
(* one call of shazam.recognize, attempt by attempt *)

mainVars ==
    <<now, pc, sonos_speaker, sonos_is_playing, last_sonos_check,
      last_identified, last_song_time, buffer, buffer_duration,
      audio_stream_active, sonos_track, audio_data, ev, poll, confirmed,
      cand, notitle, in_flight, next_chunk, stream, config_update_task>>

\* the status the service gives to attempt number n
ServiceStatus(sc, n) == IF n <= sc.fails THEN sc.failing ELSE sc.final

\* the retry client goes round again for this status
Retryable(code) == code \in RetryStatuses

\* the call starts; the service follows one of the scripts
RetryInit ==
    /\ MainInit
    /\ script \in {Some(sc) : sc \in Scripts}
    /\ attempt = 0
    /\ status = 0
    /\ reply = None
    /\ StartIdle
    /\ NormIdle
    /\ SchedIdle

\* the client sends the request and gets a response
SendRequest ==
    /\ script # None /\ reply = None /\ status = 0
    /\ attempt' = attempt + 1
    /\ status' = ServiceStatus(script[1], attempt + 1)
    /\ UNCHANGED <<mainVars, startVars, normVars, schedVars, script, reply>>

\* a retryable status before the last attempt: wait and go round again
Backoff ==
    /\ reply = None /\ status # 0
    /\ attempt < attempts /\ Retryable(status)
    /\ status' = 0
    /\ UNCHANGED <<mainVars, startVars, normVars, schedVars, script, attempt,
                   reply>>

\* the last attempt, or a status that is not retried: the response is
\* handed back, and only a 200 carries a record
ReturnResponse ==
    /\ reply = None /\ status # 0
    /\ attempt >= attempts \/ ~Retryable(status)
    /\ reply' = Some(IF status = 200 THEN "record" ELSE "none")
    /\ UNCHANGED <<mainVars, startVars, normVars, schedVars, script, attempt,
                   status>>

RetryNext ==
    \/ SendRequest
    \/ Backoff
    \/ ReturnResponse

RetrySpec == RetryInit /\ [][RetryNext]_vars

----------------------------------------------------------------------------
(* start-up: __init__ picks the input device, then run() is entered *)

\* a device index gives a device with input channels, one without, or an
\* error of get_device_info_by_index
DeviceKinds == {"input", "output", "error"}

\* dev_info['maxInputChannels'] > 0, for a device whose info could be read
IsInputDevice_any(kind) == kind # "error"
IsInputDevice(kind) == kind = "input"

\* the indexes (from 0) collected in input_devices
InputDevices(devs) ==
    {i \in 0..(Len(devs) - 1) : IsInputDevice(devs[i + 1])}

\* _find_input_device up to the interactive selection: where start-up
\* stands afterwards and the index returned
FindInputDevice(devs, wanted, dflt) ==
    LET input_devices == InputDevices(devs) IN
    IF input_devices = {}
      THEN [boot |-> "exit_no_input", index |-> None]
    ELSE IF wanted # None
      THEN IF wanted[1] \notin input_devices
             THEN [boot |-> "exit_invalid_index", index |-> None]
             ELSE [boot |-> "selected", index |-> wanted]
    ELSE IF Cardinality(input_devices) = 1
      THEN [boot |-> "selected",
            index |-> Some(CHOOSE i \in input_devices : TRUE)]
    ELSE IF dflt # None /\ dflt[1] \in input_devices
      THEN [boot |-> "selected", index |-> dflt]
    ELSE [boot |-> "prompt", index |-> None]

StartInit ==
    /\ MainInit
    /\ RetryIdle
    /\ NormIdle
    /\ SchedIdle
    /\ devices \in UNION {[1..n -> DeviceKinds] : n \in 0..MaxDevices}
    /\ device_index \in {None} \cup {Some(i) : i \in 0..MaxDevices}
    /\ default_index \in {None} \cup {Some(i) : i \in 0..(MaxDevices - 1)}
    /\ input_device_index = None
    /\ boot = "init"

\* __init__ calls _find_input_device
FindDevice ==
    /\ boot = "init"
    /\ LET r == FindInputDevice(devices, device_index, default_index) IN
         /\ boot' = r.boot
         /\ input_device_index' = r.index
    /\ UNCHANGED <<mainVars, retryVars, normVars, schedVars, devices,
                   device_index, default_index>>

\* one round of the interactive selection: a number, Enter, or Ctrl-C
SelectDevice ==
    /\ boot = "prompt"
    /\ \E kind \in {"number", "enter", "interrupt"}, n \in 0..MaxDevices :
         IF kind = "interrupt"
           THEN boot' = "exit_interrupt" /\ UNCHANGED input_device_index
         ELSE IF kind = "number" /\ n \in InputDevices(devices)
           THEN boot' = "selected" /\ input_device_index' = Some(n)
         ELSE UNCHANGED <<boot, input_device_index>>
    /\ UNCHANGED <<mainVars, retryVars, normVars, schedVars, devices,
                   device_index, default_index>>

\* __init__ returns and main() awaits app.run(): the loop is entered
EnterRun ==
    /\ boot = "selected"
    /\ boot' = "running"
    /\ UNCHANGED <<mainVars, retryVars, normVars, schedVars, devices,
                   device_index, default_index, input_device_index>>

StartNext ==
    \/ FindDevice
    \/ SelectDevice
    \/ EnterRun

StartSpec == StartInit /\ [][StartNext]_vars

----------------------------------------------------------------------------
(* the normalisation of a clip:                                            *)
(* np.int16(audio_array / np.max(np.abs(audio_array)) * 32767)             *)

Int16Min == -FullScale - 1
Int16 == Int16Min..FullScale

\* the samples the clips of the model are made of
Samples == {Int16Min, -FullScale, -16384, -1, 0, 1, 16384, FullScale}

Magnitude(x) == IF x < 0 THEN -x ELSE x

\* np.abs of an int16: the magnitude, kept in 16 bits, so that -32768
\* stays -32768
Abs16(x) ==
    ((Magnitude(x) - Int16Min) % (2 * (FullScale + 1))) + Int16Min

\* np.max(np.abs(audio_array))
Peak(samples) ==
    LET m == {Abs16(samples[i]) : i \in 1..Len(samples)} IN
    CHOOSE p \in m : \A q \in m : q <= p

\* the integer part of x / peak * 32767 (the quotient is taken exactly)
Scaled(x, peak) ==
    LET n == Magnitude(x) * FullScale
        d == Magnitude(peak)
        sign == IF (x < 0) = (peak < 0) THEN 1 ELSE -1
    IN sign * (n \div d)

\* what the conversion of the float v to int16 can give: v itself when it
\* fits; otherwise the behaviour is undefined, and builds wrap modulo 2^16
\* or saturate
CastInt16(v) ==
    IF v \in Int16 THEN {v}
    ELSE {((v - Int16Min) % (2 * (FullScale + 1))) + Int16Min,
          IF v < 0 THEN Int16Min ELSE FullScale}

\* what the conversion of nan or +-inf (a division by a peak of 0) can give
CastNotFinite == {0, -1, Int16Min, FullScale}

\* what the conversion of one sample can give
Casts(x, peak) ==
    IF peak = 0 THEN CastNotFinite ELSE CastInt16(Scaled(x, peak))

\* the arrays the normalisation of the samples can give, for their peak
RECURSIVE NormalizeAll(_, _)
NormalizeAll(samples, peak) ==
    IF samples = <<>> THEN {<<>>}
    ELSE {<<h>> \o t : h \in Casts(Head(samples), peak),
                       t \in NormalizeAll(Tail(samples), peak)}

\* the arrays the normalisation of the clip can give
Normalizations(samples) == NormalizeAll(samples, Peak(samples))

NormInit ==
    /\ MainInit
    /\ RetryIdle
    /\ StartIdle
    /\ SchedIdle
    /\ clip \in UNION {[1..n -> Samples] : n \in 1..MaxClipLen}
    /\ normalized = None

\* run() normalises the clip it has concatenated
Normalize ==
    /\ normalized = None
    /\ \E r \in Normalizations(clip) : normalized' = Some(r)
    /\ UNCHANGED <<mainVars, retryVars, startVars, schedVars, clip>>

NormNext == Normalize

NormSpec == NormInit /\ [][NormNext]_vars

----------------------------------------------------------------------------
(* the schedule display: draw_window and _should_show_schedule, between    *)
(* draws the clock moves on and the loop stores or clears a record         *)

\* the interval between two showings: shorter while no record is stored
ScheduleInterval(stored) ==
    IF stored = None
      THEN (IF schedule_interval < schedule_interval_idle
              THEN schedule_interval ELSE schedule_interval_idle)
      ELSE schedule_interval

\* the test of a schedule that is showing
StillShowing_inclusive(current_time, show_start) ==
    current_time - show_start <= schedule_duration
StillShowing(current_time, show_start) ==
    current_time - show_start < schedule_duration

\* _should_show_schedule(current_time)
ShouldShowSchedule(current_time) ==
    IF schedule_showing
      THEN StillShowing(current_time, schedule_show_start)
      ELSE current_time - last_schedule_display
             >= ScheduleInterval(last_identified)

\* draw_window: the update of the schedule display state
DrawWindow ==
    /\ IF ShouldShowSchedule(now)
         THEN IF ~schedule_showing
                THEN /\ schedule_showing' = TRUE
                     /\ schedule_show_start' = now
                     /\ last_schedule_display' = now
                ELSE UNCHANGED <<schedule_showing, schedule_show_start,
                                 last_schedule_display>>
         ELSE /\ schedule_showing' = FALSE
              /\ UNCHANGED <<schedule_show_start, last_schedule_display>>
    /\ drawn' = TRUE
    /\ UNCHANGED <<mainVars, retryVars, startVars, normVars>>

\* time passes between two draws
SchedElapse ==
    /\ \E d \in {1, 9, 50} : now + d <= SchedMaxTime /\ now' = now + d
    /\ drawn' = FALSE
    /\ UNCHANGED <<pc, sonos_speaker, sonosVars, storeVars, bufVars,
                   audio_stream_active, sonos_track, audio_data, ev,
                   histVars, in_flight, next_chunk, stream,
                   config_update_task, retryVars, startVars, normVars,
                   schedule_showing, schedule_show_start,
                   last_schedule_display>>

\* between two draws the loop stores a record or the poller clears it
StoreChange ==
    /\ last_identified' = IF last_identified = None
                            THEN Some(Song("A", "B", NoArt)) ELSE None
    /\ drawn' = FALSE
    /\ UNCHANGED <<now, pc, sonos_speaker, sonosVars, last_song_time,
                   bufVars, audio_stream_active, sonos_track, audio_data, ev,
                   histVars, in_flight, next_chunk, stream,
                   config_update_task, retryVars, startVars, normVars,
                   schedule_showing, schedule_show_start,
                   last_schedule_display>>

SchedNext ==
    \/ DrawWindow
    \/ SchedElapse
    \/ StoreChange

SchedSpec == Init /\ [][SchedNext]_vars

----------------------------------------------------------------------------
(* Vocabulary of the properties *)

PairOf(song) == <<song.title, song.artist>>

\* the step is a tick of the loop inside operating hours
TickStep ==
    /\ pc = "loop"
    /\ ev' \in {"sonos_new", "sonos_same", "stop_fail", "start_fail", "capture"}

\* the tick queried the speaker
PollStep == TickStep /\ poll' # "none"

\* the step offered a candidate record to the store
CandStep == ev' \in {"sonos_new", "sonos_same", "rec_new", "rec_same"}

\* the smallest number of chunks of `chunk` samples that reach the target
ChunksToFill(chunk, rate) ==
    CHOOSE n \in 1..100 :
        /\ n * chunk >= target_duration * rate
        /\ (n - 1) * chunk < target_duration * rate

----------------------------------------------------------------------------
(* C1 *)

----------------------------------------------------------------------------
(* C2 *)

\* C2: when a query reports the speaker not playing and the last state a
\* query reported was playing (a failed query may lie in between), the
\* stored record is cleared by that tick.
C2_ClearedOnPlayingToIdle ==
    [][(PollStep /\ confirmed /\ ~confirmed') => last_identified' = None]_vars

----------------------------------------------------------------------------
(* C3 *)

\* C3: while a recognition call is in flight the loop can read and push the
\* next chunk.
C3_ReadEnabledWhileRecognizing ==
    pc = "recognize" => ENABLED ReadChunk

----------------------------------------------------------------------------
(* C4 *)

\* C4: no error of the capture, recognition or arbitration path ends the
\* main loop.
C4_NoErrorEndsLoop ==
    ev \in {"stop_fail", "start_fail", "read_fail", "rec_error"}
      => pc \in {"loop", "read", "recognize"}

----------------------------------------------------------------------------
(* C5 *)

\* C5 (as claimed): the buffer first reaches the target on the 24th chunk at
\* 16000 Hz, and not before.
C5_FullOnChunk24 ==
    ev = "drain" => RATE = 16000 /\ Len(audio_data[1]) = 24

\* C5 (amended): the buffer is full on exactly the chunk whose addition
\* first makes the accumulated duration reach the target, never earlier:
\* between steps the buffer is below the target and its duration is its
\* number of chunks times CHUNK; the drained clip has
\* ChunksToFill(CHUNK, RATE) chunks, the 12th 4096-sample chunk at 16000 Hz
\* (2048-sample chunks would give the 24th), and the drain leaves the
\* buffer empty with duration 0.
C5_FullExactlyOnCrossing ==
    /\ ~(buffer_duration >= target_duration * RATE)
    /\ buffer_duration = Len(buffer) * CHUNK
    /\ ev = "push" => buffer # <<>>
    /\ ev = "drain"
         => /\ audio_data # None
            /\ Len(audio_data[1]) * CHUNK >= target_duration * RATE
            /\ (Len(audio_data[1]) - 1) * CHUNK < target_duration * RATE
            /\ Len(audio_data[1]) = ChunksToFill(CHUNK, RATE)
            /\ buffer = <<>> /\ buffer_duration = 0
    /\ ChunksToFill(4096, 16000) = 12
    /\ ChunksToFill(2048, 16000) = 24

\* the chunk that crosses the target has just been read and drained
C5_Witness ==
    /\ ev = "drain" /\ pc = "recognize"
    /\ Len(audio_data[1]) = 12
    /\ buffer = <<>> /\ buffer_duration = 0

----------------------------------------------------------------------------
(* C6 *)

\* C6 (as claimed): a candidate with the same (title, artist) as the
\* candidate before it does nothing to the store.
C6_DuplicateDoesNothing ==
    [][(CandStep /\ cand # None /\ PairOf(cand'[1]) = PairOf(cand[1]))
         => UNCHANGED storeVars]_vars

\* C6 (amended): in a run of consecutive candidates with the same (title,
\* artist) the first replaces the record and stamps the time, and a later
\* one does nothing unless the store was cleared (Sonos went from playing
\* to idle) since the candidate before it, in which case it replaces the
\* record again.
C6_DuplicateDoesNothingUnlessCleared ==
    [][CandStep =>
         IF cand # None /\ PairOf(cand'[1]) = PairOf(cand[1])
              /\ last_identified # None
           THEN UNCHANGED storeVars
           ELSE last_identified' = cand' /\ last_song_time' = Some(now')]_vars

\* the second of two equal candidates has just been offered and ignored:
\* the stored time is earlier than the clock
C6_Witness ==
    /\ ev \in {"sonos_same", "rec_same"}
    /\ cand # None /\ last_identified # None
    /\ PairOf(cand[1]) = PairOf(last_identified[1])
    /\ last_song_time # None /\ last_song_time[1] < now

----------------------------------------------------------------------------
(* C7 *)

\* C7: a candidate replaces the stored record and stamps last_song_time
\* with the current time if and only if nothing is stored or its (title,
\* artist) differs from the stored one; otherwise record and time are
\* unchanged, whatever the artwork.
C7_ReplaceIffNewPair ==
    [][CandStep =>
         IF last_identified = None
              \/ PairOf(cand'[1]) # PairOf(last_identified[1])
           THEN last_identified' = cand' /\ last_song_time' = Some(now')
           ELSE UNCHANGED storeVars]_vars

\* a candidate that differs from the stored record in the artwork only was
\* offered and the record was kept
C7_Witness ==
    /\ ev = "sonos_same"
    /\ cand # None /\ last_identified # None
    /\ PairOf(cand[1]) = PairOf(last_identified[1])
    /\ cand[1].art # last_identified[1].art

----------------------------------------------------------------------------
(* C8 *)

\* C8: a query of the speaker comes at least the interval of the state held
\* since the query before it after that query: 1 s while playing, 5 s while
\* idle.
C8_PollSpacing ==
    [][PollStep =>
         /\ last_sonos_check' = now
         /\ now - last_sonos_check >=
              (IF sonos_is_playing THEN sonos_check_interval
                                   ELSE sonos_check_interval_paused)]_vars

\* a second query was issued, in the idle state
C8_Witness ==
    /\ poll # "none"
    /\ last_sonos_check >= StartTime + sonos_check_interval_paused
    /\ ~confirmed

----------------------------------------------------------------------------
(* C9 *)

\* C9: a tick whose query fails gets no track, counts the speaker as not
\* playing and goes on (to the read, or to the next tick); the speaker is
\* kept, and every tick at which the interval has elapsed queries it.
C9_QueryErrorIsNotPlaying ==
    [][/\ (TickStep /\ poll' = "err")
            => /\ sonos_track' = None
               /\ ~sonos_is_playing'
               /\ pc' \in {"loop", "read"}
       /\ sonos_speaker' = sonos_speaker
       /\ (TickStep /\ sonos_speaker
             /\ now - last_sonos_check >=
                  (IF sonos_is_playing THEN sonos_check_interval
                                       ELSE sonos_check_interval_paused))
            => poll' # "none"]_vars

\* the query of a speaker last reported playing failed: no track, counted
\* as not playing, and the loop has gone on to read a chunk
C9_Witness ==
    /\ poll = "err" /\ confirmed
    /\ ~sonos_is_playing /\ sonos_track = None
    /\ pc = "read"

----------------------------------------------------------------------------
(* C10 *)

\* C10: a tick whose query fails leaves last_identified and last_song_time
\* as they were; a stored record is cleared only by a query that succeeds
\* and reports not playing while sonos_is_playing was true.
C10_QueryErrorKeepsStore ==
    [][/\ (TickStep /\ poll' = "err") => UNCHANGED storeVars
       /\ (last_identified # None /\ last_identified' = None)
            => /\ PollStep /\ poll' = "ok"
               /\ sonos_is_playing /\ ~sonos_is_playing'
               /\ ~confirmed'
               /\ UNCHANGED last_song_time]_vars

\* a query failed while a record was stored
C10_Witness ==
    /\ poll = "err"
    /\ last_identified # None
    /\ ev \in {"capture", "start_fail"}


----------------------------------------------------------------------------
(* C11 *)

\* C11: from a query that finds the speaker playing with no title until
\* the next query, get_sonos_track_info gives run() no track, whatever the
\* store holds.
C11_NoTitleGivesNoTrack ==
    notitle => sonos_track = None

----------------------------------------------------------------------------
(* C12 *)

\* C12: at most one recognition call is in flight; a clip is submitted
\* only when none is, the loop then awaits that call, and the clip in
\* flight is the one whose result is applied next.
C12_OneRecognitionInFlight ==
    /\ in_flight \in {0, 1}
    /\ in_flight = 1 <=> pc = "recognize"
    /\ in_flight = 1 <=> audio_data # None
    /\ ev = "drain" => in_flight = 1

\* a second clip has been submitted after a first one was resolved
C12_Witness ==
    /\ ev = "drain" /\ in_flight = 1
    /\ cand # None /\ cand[1].art = NoArt

----------------------------------------------------------------------------
(* C13 *)

\* C13: a tick in which get_sonos_track_info returns a track leaves the
\* stream stopped, reads no chunk and submits no clip, and leaves the store
\* holding that track's (title, artist).
C13_TrackTickPausesAndStores ==
    [][(TickStep /\ sonos_track' # None)
         => /\ ~audio_stream_active' /\ stream' = "stopped"
            /\ pc' = "loop"
            /\ UNCHANGED <<audio_data, in_flight, next_chunk>>
            /\ last_identified' # None
            /\ PairOf(last_identified'[1]) = PairOf(sonos_track'[1])]_vars

----------------------------------------------------------------------------
(* C14 *)

\* the loop has done nothing so far but start the stream, read and push
\* valid chunks, drain, and get a track from shazam.recognize
OnlyCaptureSoFar ==
    ev \in {"init", "capture", "push", "drain", "rec_new", "rec_same"}

\* a result of shazam.recognize has just been applied and the store holds
\* its (title, artist)
MatchStored ==
    /\ ev \in {"rec_new", "rec_same"}
    /\ cand # None /\ last_identified # None
    /\ PairOf(last_identified[1]) = PairOf(cand[1])
    /\ audio_data = None /\ in_flight = 0

\* C14: if from some point on every tick is inside operating hours, gets no
\* track from get_sonos_track_info and reads a valid chunk, and every
\* recognition gives a track, then the buffer fills, the clip is handed to
\* shazam.recognize and the store eventually holds the track it gives.
C14_CaptureLeadsToStore ==
    ([]OnlyCaptureSoFar) ~> MatchStored

\* a full buffer was drained and its recognition stored a new record
C14_Witness ==
    /\ ev = "rec_new"
    /\ MatchStored
    /\ buffer = <<>> /\ buffer_duration = 0
    /\ last_song_time = Some(now)

----------------------------------------------------------------------------
(* C15 *)

\* seq is a run of consecutive chunks of the device's stream, each once and
\* in order, that ends with the chunk before nxt
ConsecutiveUpTo(seq, nxt) ==
    \A i \in 1..Len(seq) : seq[i] = (nxt + Len(seq) - i + 1) % 2

\* C15: a push adds the chunk just read at the end of the buffer; a drain
\* makes the clip of exactly the buffered chunks followed by the chunk just
\* read, each once and in order, and empties the buffer in the same step;
\* no other step adds to the buffer or makes a clip.  So buffer and clip
\* are always runs of consecutive chunks: none is dropped, doubled or
\* carried over into the next clip.
C15_DrainTakesEveryChunkOnce ==
    [][/\ ev' = "push"
            => /\ buffer' = Append(buffer, next_chunk)
               /\ next_chunk' # next_chunk
               /\ UNCHANGED audio_data
       /\ ev' = "drain"
            => /\ audio_data' = Some(Append(buffer, next_chunk))
               /\ next_chunk' # next_chunk
               /\ buffer' = <<>> /\ buffer_duration' = 0
       /\ ev' \notin {"push", "drain"}
            => /\ buffer' \in {buffer, <<>>}
               /\ audio_data' \in {audio_data, None}
               /\ UNCHANGED next_chunk
       /\ ConsecutiveUpTo(buffer', next_chunk')
       /\ audio_data' # None
            => /\ ConsecutiveUpTo(audio_data'[1], next_chunk')
               /\ buffer' = <<>>]_vars

\* a second clip was drained: it starts with the chunk that follows the
\* last chunk of the first clip
C15_Witness ==
    /\ ev = "drain"
    /\ cand # None /\ cand[1].art = NoArt
    /\ audio_data # None /\ Len(audio_data[1]) = 12
    /\ audio_data[1][1] = 0 /\ audio_data[1][12] = 1
    /\ buffer = <<>>

----------------------------------------------------------------------------
(* C16 *)

\* C16: a read that gives no usable chunk (no data, IOError) is dropped:
\* nothing is appended, the duration does not advance, no clip is made, the
\* stream stays active and the loop is back at its next tick with the
\* buffered chunks as they were.
C16_BadChunkDropped ==
    [][ev' = "read_fail"
         => /\ pc = "read" /\ pc' = "loop"
            /\ buffer' = buffer /\ buffer_duration' = buffer_duration
            /\ UNCHANGED <<audio_data, in_flight, storeVars>>
            /\ audio_stream_active' /\ stream' = "running"]_vars

\* a read failed while chunks were buffered, and they are still there
C16_Witness ==
    /\ ev = "read_fail" /\ pc = "loop"
    /\ Len(buffer) >= 2 /\ buffer_duration = Len(buffer) * CHUNK
    /\ audio_stream_active

----------------------------------------------------------------------------
(* C17 *)

\* C17: when shazam.recognize raises (its retries are used up) or gives no
\* track, the error stays inside the tick: nothing is offered to the
\* store, record and time are as before, the clip is gone and the loop is
\* at its next tick with the stream still active.
C17_FailedRecognitionKeepsStore ==
    [][ev' \in {"rec_error", "rec_none"}
         => /\ pc = "recognize" /\ pc' = "loop"
            /\ UNCHANGED <<storeVars, cand, bufVars, audio_stream_active,
                           stream>>
            /\ audio_data' = None /\ in_flight' = 0]_vars

\* a recognition raised while a record was stored, and the loop is at its
\* next tick
C17_Witness ==
    /\ ev = "rec_error" /\ pc = "loop"
    /\ last_identified # None /\ last_song_time # None
    /\ audio_stream_active

----------------------------------------------------------------------------
(* C18 *)

\* C18: a call never makes more than `attempts` attempts; when the service
\* fails with a retried status fewer than `attempts` times and then
\* answers 200, the call gives the record after one attempt more than the
\* failures (503 three times, then success: the record, on attempt 4).
C18_RetriesBoundedAndSucceed ==
    /\ attempt <= attempts
    /\ reply # None
         => LET sc == script[1] IN
            /\ attempt <= sc.fails + 1
            /\ (sc.fails < attempts /\ sc.final = 200)
                 => reply = Some("record") /\ attempt = sc.fails + 1
            /\ (sc.fails = 3 /\ sc.failing = 503 /\ sc.final = 200)
                 => reply = Some("record") /\ attempt = 4

\* 503 on three attempts, then success: the call has given the record
C18_Witness ==
    /\ script = Some([fails |-> 3, failing |-> 503, final |-> 200])
    /\ attempt = 4 /\ status = 200
    /\ reply = Some("record")

----------------------------------------------------------------------------
(* C19 *)

\* the step ends in draw_window and display.flip
DrawStep ==
    ev' \in {"off", "sonos_new", "sonos_same", "push", "rec_none",
             "rec_error", "rec_new", "rec_same"}

\* C19: while a capture read is pending the loop can still take a step that
\* draws the window, the read staying pending.
C19_DrawWhileReadPending ==
    pc = "read" => ENABLED (Next /\ DrawStep /\ pc' = "read")

----------------------------------------------------------------------------
(* C20 *)

\* C20: a quit event leaves the capture stream not running and the
\* config-refresh task, if one was started, cancelled, whatever the loop
\* was doing; the Sonos polling is part of the loop and ends with it: once
\* exited, the loop takes no further step.
C20_QuitStopsStreamAndTasks ==
    /\ pc = "exited"
         => /\ ev = "quit"
            /\ stream = "closed"
            /\ config_update_task \in {"none", "cancelled"}
            /\ ~ENABLED Next
    /\ config_update_task = "cancelled" => pc = "exited"

\* quit came while the stream was capturing and the refresh task was
\* running
C20_Witness ==
    /\ pc = "exited" /\ ev = "quit"
    /\ audio_stream_active /\ buffer # <<>>
    /\ stream = "closed"
    /\ config_update_task = "cancelled"

----------------------------------------------------------------------------
(* C21 *)

\* C21: while a recognition call is unresolved a quit event can be acted
\* on: the loop can exit without the call returning first.
C21_QuitWhileRecognizing ==
    (pc = "recognize" /\ in_flight = 1) => ENABLED Quit

----------------------------------------------------------------------------
(* C22 *)

\* C22: every change of the store is the whole update of one writer: the
\* recognition path (record and time together, no poll in the step), the
\* Sonos branch of a tick (record and time together), or the poller's
\* clear (record only); and from the submission of a clip until its
\* result is applied no one but the recognition path writes.
C22_OneStoreWriterAtATime ==
    [][storeVars' # storeVars
         => /\ \/ /\ ev' = "rec_new"
                  /\ pc = "recognize"
                  /\ last_identified' = cand' /\ cand'[1].art = NoArt
                  /\ last_song_time' = Some(now')
                  /\ UNCHANGED <<sonosVars, sonos_track, poll>>
               \/ /\ ev' = "sonos_new"
                  /\ pc = "loop"
                  /\ last_identified' = sonos_track'
                  /\ last_song_time' = Some(now')
                  /\ UNCHANGED <<audio_data, in_flight>>
               \/ /\ TickStep /\ poll' = "ok"
                  /\ last_identified' = None
                  /\ UNCHANGED <<last_song_time, audio_data, in_flight>>
            /\ in_flight > 0 => ev' = "rec_new"]_vars

\* a tick polled the speaker, found it idle and captured, and the
\* recognition of its clip has replaced a record
C22_Witness ==
    /\ ev = "rec_new" /\ poll = "ok"
    /\ sonos_speaker /\ ~sonos_is_playing
    /\ last_identified = cand /\ last_song_time = Some(now)
    /\ now > StartTime

----------------------------------------------------------------------------
(* C24 *)

\* C24: last_sonos_check never decreases, whatever the ticks, polls and
\* poll errors, and is never ahead of the clock.
C24_LastCheckOnlyAdvances ==
    [][/\ last_sonos_check' >= last_sonos_check
       /\ last_sonos_check' <= now']_vars

\* a poll failed, after at least one earlier poll
C24_Witness ==
    /\ poll = "err"
    /\ last_sonos_check > StartTime
    /\ ev \in {"capture", "start_fail"}

----------------------------------------------------------------------------
(* C26 *)

\* C26: between steps buffer_duration is the number of buffered chunks
\* times CHUNK / RATE and is below the target; a submitted clip of n chunks
\* has duration d = n * CHUNK / RATE with
\* target_duration <= d < target_duration + CHUNK / RATE (durations in
\* samples, that is, times RATE).
C26_ClipDurationWithinOneChunk ==
    /\ buffer_duration = Len(buffer) * CHUNK
    /\ buffer_duration < target_duration * RATE
    /\ audio_data # None
         => LET d == Len(audio_data[1]) * CHUNK IN
            /\ target_duration * RATE <= d
            /\ d < target_duration * RATE + CHUNK

\* a clip is with the recognition service while nothing is buffered
C26_Witness ==
    /\ pc = "recognize" /\ audio_data # None
    /\ Len(audio_data[1]) * CHUNK >= target_duration * RATE
    /\ buffer_duration = 0

----------------------------------------------------------------------------
(* C27 *)

\* C27: whenever audio_stream_active is false the buffer is empty and
\* buffer_duration is 0; so the first chunk buffered after capture resumes
\* is the only one in the buffer.
C27_InactiveMeansEmptyBuffer ==
    [][/\ ~audio_stream_active'
            => buffer' = <<>> /\ buffer_duration' = 0
       /\ (~audio_stream_active /\ audio_stream_active')
            => buffer' = <<>> /\ ev' = "capture"
       /\ (audio_stream_active /\ ~audio_stream_active')
            => ev' \in {"sonos_new", "sonos_same"}]_vars

\* the Sonos branch has stopped a capture after an odd number of chunks
\* had been read, and nothing of them is left
C27_Witness ==
    /\ ~audio_stream_active /\ stream = "stopped"
    /\ ev \in {"sonos_new", "sonos_same"}
    /\ buffer = <<>> /\ buffer_duration = 0
    /\ next_chunk = 1

----------------------------------------------------------------------------
(* C28 *)

\* C28: a tick outside operating hours (and not always open) polls
\* nothing, reads nothing and submits nothing: it ends at the next tick
\* with record, time, sonos_is_playing, last_sonos_check, buffer, duration
\* and stream flag as they were; only the clock has moved on, by the
\* second it sleeps.
C28_OffHoursTickTouchesNothing ==
    [][ev' = "off"
         => /\ pc = "loop" /\ pc' = "loop"
            /\ UNCHANGED <<storeVars, sonosVars, bufVars, audio_stream_active,
                           stream, sonos_track, audio_data, in_flight,
                           next_chunk, histVars>>
            /\ now' = now + 1]_vars

\* an off-hours tick came while a capture was under way, with chunks
\* buffered and a record stored
C28_Witness ==
    /\ ev = "off" /\ pc = "loop"
    /\ audio_stream_active /\ buffer # <<>>
    /\ last_identified # None

----------------------------------------------------------------------------
(* C29 *)

\* C29: whenever a record is stored a time is stored with it, and the
\* stored time, once set, is never unset and never decreases, over
\* replacements of the record and clears alike.
C29_RecordHasTimeAndTimeAdvances ==
    [][/\ last_identified' # None => last_song_time' # None
       /\ last_song_time # None
            => /\ last_song_time' # None
               /\ last_song_time'[1] >= last_song_time[1]]_vars

\* the record was cleared and its time kept, and a later poll found the
\* speaker idle again
C29_Witness ==
    /\ last_identified = None /\ last_song_time # None
    /\ last_song_time[1] < now
    /\ poll = "ok" /\ ~sonos_is_playing

----------------------------------------------------------------------------
(* C23 *)

\* C23: when no device has input channels, or the requested index is not
\* the index of a device with input channels, start-up ends in
\* _find_input_device with sys.exit after the error was logged: no device
\* is selected, no further step follows and run() is never entered.
C23_DeviceErrorsAreFatal ==
    LET inputs == {i \in 0..(Len(devices) - 1) : devices[i + 1] = "input"} IN
    /\ (boot # "done" /\ boot # "init" /\ inputs = {})
         => boot = "exit_no_input"
    /\ (boot # "done" /\ boot # "init" /\ inputs # {}
           /\ device_index # None /\ device_index[1] \notin inputs)
         => boot = "exit_invalid_index"
    /\ boot \in {"exit_no_input", "exit_invalid_index"}
         => input_device_index = None /\ ~ENABLED StartNext
    /\ boot \in {"selected", "running"}
         => /\ input_device_index # None
            /\ input_device_index[1] \in inputs

\* the requested index is that of an output-only device, while another
\* device has input channels
C23_Witness ==
    /\ boot = "exit_invalid_index"
    /\ device_index = Some(0)
    /\ Len(devices) = 2
    /\ devices[1] = "output" /\ devices[2] = "input"

----------------------------------------------------------------------------
(* C25 *)

\* the largest magnitude of the samples
TruePeak(samples) ==
    LET m == {Magnitude(samples[i]) : i \in 1..Len(samples)} IN
    CHOOSE p \in m : \A q \in m : q <= p

\* C25: for a clip that is not silent, -32768 included, every normalised
\* sample is the original times 32767 / peak (to the integer part), where
\* peak is the largest magnitude of the clip; so all lie in the int16 range
\* with the sign of the original and the largest magnitude is 32767.
C25_NormalizedToFullScale ==
    (normalized # None /\ TruePeak(clip) # 0)
      => LET out == normalized[1]
             peak == TruePeak(clip)
         IN /\ \A i \in 1..Len(clip) :
                  /\ Magnitude(out[i]) = (Magnitude(clip[i]) * FullScale) \div peak
                  /\ (clip[i] < 0) => out[i] <= 0
                  /\ (clip[i] > 0) => out[i] >= 0
            /\ \E i \in 1..Len(clip) : Magnitude(out[i]) = FullScale
            /\ \A i \in 1..Len(clip) : Magnitude(out[i]) <= FullScale

----------------------------------------------------------------------------
(* C30 *)

\* the step is a draw
DrawnStep == drawn' /\ now' = now /\ last_identified' = last_identified

====
